---- MODULE Spec2Model ----
(***************************************************************************)
(* A model of the AVR_sleep library (AVRsleep/src/AVR_sleep.h, .cpp): the  *)
(* AVR_sleep object, the ATmega328P registers it reads and writes, and     *)
(* goToSleep() taken one statement at a time, interleaved with the wake-up *)
(* interrupt.                                                              *)
(***************************************************************************)
EXTENDS Integers, Sequences, FiniteSets

\* ------------------------------------------------------------------------
\* Bit arithmetic on machine words.
\* ------------------------------------------------------------------------

Pow2(n) == 2 ^ n

\* Bit i of the word n.
Bit(n, i) == (n \div Pow2(i)) % 2

\* The 8-bit and 16-bit truncations of the assignments to uint8_t/uint16_t.
U8(n) == n % 256

U16(n) == n % 65536

RECURSIVE AndW(_, _, _)
AndW(a, b, w) ==
    IF w = 0 THEN 0
    ELSE (a % 2) * (b % 2) + 2 * AndW(a \div 2, b \div 2, w - 1)

RECURSIVE OrW(_, _, _)
OrW(a, b, w) ==
    IF w = 0 THEN 0
    ELSE (IF (a % 2) + (b % 2) > 0 THEN 1 ELSE 0)
         + 2 * OrW(a \div 2, b \div 2, w - 1)

\* a & b, a | b and ~a on 16-bit operands (C integer promotion of the
\* uint8_t / uint16_t operands the code uses; every value fits 16 bits).
BitAnd(a, b) == AndW(a, b, 16)

BitOr(a, b) == OrW(a, b, 16)

BitNot8(a) == 255 - U8(a)

\* ------------------------------------------------------------------------
\* Register bit numbers and enumerators.
\* ------------------------------------------------------------------------

\* PRR bits, as the header's comments number them.
PRTWI == 7

PRTIM2 == 6

PRTIM0 == 5

PRTIM1 == 3

PRSPI == 2

PRUSART0 == 1

PRADC == 0

\* SMCR: sleep enable, and the lowest bit of the sleep-mode-select field
\* SM2:0 (bits 3..1).
SE == 0

SM0 == 1

\* ACSR: analog comparator disable.
ACD == 7

\* MCUSR: watchdog reset flag.
WDRF == 3

\* SREG: global interrupt enable.
SREG_I == 7

\* MCUCR: BOD sleep.
BODS == 6

\* sleepMode_t: the SLEEP_MODE_* values of avr/sleep.h, already shifted into
\* SM2:0.
SM_IDLE == 0

SM_ADC == 2

SM_POWER_DOWN == 4

SM_POWER_SAVE == 6

SM_STANDBY == 12

SM_EXT_STANDBY == 14

sleepMode_t ==
    {SM_IDLE, SM_ADC, SM_POWER_DOWN, SM_POWER_SAVE, SM_STANDBY, SM_EXT_STANDBY}

\* powerMode_t.  The first seven enumerators are masks (1 << bit); the last
\* three are written as plain numbers.
PM_NONE == 0

PM_TWI_OFF == Pow2(PRTWI)

PM_TIMER2_OFF == Pow2(PRTIM2)

PM_TIMER0_OFF == Pow2(PRTIM0)

PM_TIMER1_OFF == Pow2(PRTIM1)

PM_SPI_OFF == Pow2(PRSPI)

PM_USART_OFF == Pow2(PRUSART0)

PM_ADC_OFF == Pow2(PRADC)

PM_PRR_OFF == 239

PM_AC_OFF == 8

PM_BOD_OFF == 9

PM_WDT_OFF == 10

PM_EVERYTHING_OFF == 2031

\* The enumerators that name one peripheral each, by name, and their values.
RegisterFlags ==
    {"PM_TWI_OFF", "PM_TIMER2_OFF", "PM_TIMER0_OFF", "PM_TIMER1_OFF",
     "PM_SPI_OFF", "PM_USART_OFF", "PM_ADC_OFF"}

SyntheticFlags == {"PM_AC_OFF", "PM_BOD_OFF", "PM_WDT_OFF"}

FlagValue(name) ==
    CASE name = "PM_TWI_OFF" -> PM_TWI_OFF
      [] name = "PM_TIMER2_OFF" -> PM_TIMER2_OFF
      [] name = "PM_TIMER0_OFF" -> PM_TIMER0_OFF
      [] name = "PM_TIMER1_OFF" -> PM_TIMER1_OFF
      [] name = "PM_SPI_OFF" -> PM_SPI_OFF
      [] name = "PM_USART_OFF" -> PM_USART_OFF
      [] name = "PM_ADC_OFF" -> PM_ADC_OFF
      [] name = "PM_AC_OFF" -> PM_AC_OFF
      [] name = "PM_BOD_OFF" -> PM_BOD_OFF
      [] name = "PM_WDT_OFF" -> PM_WDT_OFF

\* A hook reference: NoHook is nullptr, 1..NumHooks are the caller's functions.
NoHook == 0

NumHooks == 1

HookRefs == 0 .. NumHooks

\* ------------------------------------------------------------------------
\* Input values.
\* ------------------------------------------------------------------------

\* The OR of the values of a set of enumerators.
RECURSIVE OrAll(_)
OrAll(S) ==
    IF S = {} THEN 0
    ELSE LET e == CHOOSE x \in S : TRUE
         IN  BitOr(FlagValue(e), OrAll(S \ {e}))

\* Masks passed to setSleepMode: two register flags; the two synthetic
\* enumerators OR-ed as written; the same two as bits 9 and 10; the
\* comparator bit with a register flag; everything; and the brown-out bit
\* with a register flag and every bit above bit 10.
MaskInputs ==
    {BitOr(PM_TIMER1_OFF, PM_ADC_OFF),
     BitOr(PM_BOD_OFF, PM_WDT_OFF),
     BitOr(Pow2(PM_BOD_OFF), Pow2(PM_WDT_OFF)),
     BitOr(Pow2(PM_AC_OFF), PM_TWI_OFF),
     PM_EVERYTHING_OFF,
     BitOr(63488, BitOr(Pow2(PM_BOD_OFF), PM_SPI_OFF))}

\* Values the application leaves in PRR before a sleep cycle (0 is the
\* reset value).
PRRInputs == {0, BitOr(PM_TWI_OFF, PM_SPI_OFF)}

\* Reset-cause flags found in MCUSR at start-up: power-on, watchdog.
MCUSRInputs == {1, Pow2(WDRF)}

\* ------------------------------------------------------------------------
\* State.
\* ------------------------------------------------------------------------

VARIABLES
    arduino,    \* TRUE iff the build defines ARDUINO
    ps,         \* AVR_sleep::ps, the pre-sleep hook
    aw,         \* AVR_sleep::aw, the after-wake hook
    copyPRR,    \* AVR_sleep::copyPRR
    powerBits,  \* AVR_sleep::powerBits
    PRR,        \* power reduction register
    SMCR,       \* sleep mode control register
    SREG,       \* status register (only the I bit is modelled)
    ACSR,       \* analog comparator control and status register
    MCUSR,      \* MCU status register
    MCUCR,      \* MCU control register (only BODS is modelled)
    WDTCSR,     \* watchdog control register (only WDE is modelled)
    oldSREG,    \* goToSleep's local
    pc,         \* "idle" in the application, else the next line of goToSleep
    irq,        \* the wake-up interrupt is pending
    trace,      \* what goToSleep has done so far in the current call
    lastCall,   \* the arguments of the latest setSleepMode call (history)
    attached,   \* the arguments of the latest attachPreSleep and
                \* attachWakeUp calls (history)
    served      \* a handler has run in the current call before the halt,
                \* and the processor has not been woken since (history)

vars ==
    <<arduino, ps, aw, copyPRR, powerBits, PRR, SMCR, SREG, ACSR, MCUSR,
      MCUCR, WDTCSR, oldSREG, pc, irq, trace, lastCall, attached, served>>

\* The fields of the object, the registers, and the rest.
object == <<ps, aw, copyPRR, powerBits>>

registers == <<PRR, SMCR, SREG, ACSR, MCUSR, MCUCR, WDTCSR>>

history == <<lastCall, attached, served>>

\* WDTCSR: watchdog system reset enable.
WDE == 3

InterruptsEnabled == Bit(SREG, SREG_I) = 1

\* The device after a reset and the static constructor AVR_sleep(): the
\* registers at their reset values, MCUSR holding the reset cause, and the
\* watchdog on whenever WDRF is set (WDRF overrides WDE).
Boot(mcusr, wdtcsr) ==
    /\ ps = NoHook
    /\ aw = NoHook
    /\ copyPRR = 0
    /\ powerBits = PM_NONE
    /\ PRR = 0
    /\ SMCR = 0
    /\ SREG = 0
    /\ ACSR = 0
    /\ MCUSR = mcusr
    /\ MCUCR = 0
    /\ WDTCSR = wdtcsr
    /\ oldSREG = 0
    /\ pc = "idle"
    /\ irq = FALSE
    /\ trace = << >>
    /\ lastCall = << >>
    /\ attached = <<NoHook, NoHook>>
    /\ served = FALSE

\* Start-up states: the reset cause, with the watchdog running.
BootInputs == {<<m, Pow2(WDE)>> : m \in MCUSRInputs}

Init ==
    /\ arduino \in BOOLEAN
    /\ \E b \in BootInputs : Boot(b[1], b[2])

\* ------------------------------------------------------------------------
\* setSleepMode, attachPreSleep, attachWakeUp.
\* ------------------------------------------------------------------------

\* Mutant of SubstituteMode: one fallback for both unusable modes.
SubstituteModeOneFallback(isArduino, mode) ==
    IF isArduino /\ mode \in {SM_POWER_SAVE, SM_EXT_STANDBY}
    THEN SM_POWER_DOWN
    ELSE mode

\* The #ifdef ARDUINO block: the mode setSleepMode commits.
SubstituteMode(isArduino, mode) ==
    IF isArduino
    THEN IF mode = SM_POWER_SAVE THEN SM_POWER_DOWN
         ELSE IF mode = SM_EXT_STANDBY THEN SM_STANDBY
         ELSE mode
    ELSE mode

\* Mutant of set_sleep_mode: the mode bits are toggled into SMCR.
set_sleep_modeToggle(smcr, mode) ==
    U8(BitOr(smcr, mode) - BitAnd(smcr, mode))

\* avr/sleep.h set_sleep_mode(mode):
\*   SMCR = (SMCR & ~(_BV(SM0) | _BV(SM1) | _BV(SM2))) | mode
SleepModeMask == BitOr(Pow2(SM0), BitOr(Pow2(SM0 + 1), Pow2(SM0 + 2)))

set_sleep_mode(smcr, mode) ==
    U8(BitOr(BitAnd(smcr, BitNot8(SleepModeMask)), mode))

\* The sleep-mode-select field and the sleep-enable bit of an SMCR value.
ModeField(smcr) == BitAnd(smcr, SleepModeMask)

SleepEnabled(smcr) == Bit(smcr, SE) = 1

setSleepMode(sleepMode, powerOffBits) ==
    /\ pc = "idle"
    /\ powerBits' = U16(powerOffBits)
    /\ SMCR' = set_sleep_mode(SMCR, SubstituteMode(arduino, sleepMode))
    /\ lastCall' = <<sleepMode, powerOffBits>>
    /\ UNCHANGED <<arduino, ps, aw, copyPRR, PRR, SREG, ACSR, MCUSR, MCUCR,
                   WDTCSR, oldSREG, pc, irq, trace, attached, served>>

\* Mutant of attachPreSleep: the hook is stored only while none is attached.
attachPreSleepIfNone(psfn) ==
    /\ pc = "idle"
    /\ ps' = (IF ps = NoHook THEN psfn ELSE ps)
    /\ attached' = <<psfn, attached[2]>>
    /\ UNCHANGED <<arduino, aw, copyPRR, powerBits, registers, oldSREG, pc,
                   irq, trace, lastCall, served>>

attachPreSleep(psfn) ==
    /\ pc = "idle"
    /\ ps' = psfn
    /\ attached' = <<psfn, attached[2]>>
    /\ UNCHANGED <<arduino, aw, copyPRR, powerBits, registers, oldSREG, pc,
                   irq, trace, lastCall, served>>

attachWakeUp(awfn) ==
    /\ pc = "idle"
    /\ aw' = awfn
    /\ attached' = <<attached[1], awfn>>
    /\ UNCHANGED <<arduino, ps, copyPRR, powerBits, registers, oldSREG, pc,
                   irq, trace, lastCall, served>>

\* ------------------------------------------------------------------------
\* The application between calls: it owns PRR and the I flag.
\* ------------------------------------------------------------------------

WritePRR(v) ==
    /\ pc = "idle"
    /\ PRR' = v
    /\ UNCHANGED <<arduino, object, SMCR, SREG, ACSR, MCUSR, MCUCR, WDTCSR,
                   oldSREG, pc, irq, trace, history>>

\* SREG with the I bit set (sei) or cleared (cli).
WithI(sreg, on) ==
    IF on THEN U8(BitOr(sreg, Pow2(SREG_I)))
    ELSE BitAnd(sreg, BitNot8(Pow2(SREG_I)))

WriteI(on) ==
    /\ pc = "idle"
    /\ SREG' = WithI(SREG, on)
    /\ UNCHANGED <<arduino, object, PRR, SMCR, ACSR, MCUSR, MCUCR, WDTCSR,
                   oldSREG, pc, irq, trace, history>>

\* ------------------------------------------------------------------------
\* goToSleep, one statement per step.  pc names the line about to run.
\* ------------------------------------------------------------------------

\* Mutant of HasFlag: the enumerator is used as a mask, not as a bit number.
HasFlagAsMask(bits, flag) == BitAnd(bits, flag) # 0

\* powerBits & (1 << flag)
HasFlag(bits, flag) == BitAnd(bits, Pow2(flag)) # 0

\* An entry of trace: the operation, and the value it read or wrote or the
\* hook it called (0 when it has none).
Did(op, arg) == Append(trace, <<op, arg>>)

\* Mutant of SavePRR: the snapshot is taken only while copyPRR is still 0,
\* so a later call restores an earlier call's snapshot.
SavePRROnce ==
    /\ pc = "idle"
    /\ copyPRR' = (IF copyPRR = 0 THEN PRR ELSE copyPRR)
    /\ pc' = "L72"
    /\ trace' = <<<<"save_prr", PRR>>>>
    /\ UNCHANGED <<arduino, ps, aw, powerBits, registers, oldSREG, irq,
                   history>>

\* copyPRR = PRR;
SavePRR ==
    /\ pc = "idle"
    /\ copyPRR' = PRR
    /\ pc' = "L72"
    /\ trace' = <<<<"save_prr", PRR>>>>
    /\ UNCHANGED <<arduino, ps, aw, powerBits, registers, oldSREG, irq,
                   history>>

\* Mutant of PowerOffValue: the high byte is folded into the low byte.
PowerOffValueFolded(bits) == U8(BitOr(bits % 256, bits \div 256))

\* The value of (powerBits & 0x00ff), stored in the 8-bit PRR.
PowerOffValue(bits) == U8(BitAnd(bits, 255))

\* PRR = (powerBits & 0x00ff);
PowerOffPRR ==
    /\ pc = "L72"
    /\ PRR' = PowerOffValue(powerBits)
    /\ pc' = "L83"
    /\ trace' = Did("write_prr", PowerOffValue(powerBits))
    /\ UNCHANGED <<arduino, object, SMCR, SREG, ACSR, MCUSR, MCUCR, WDTCSR,
                   oldSREG, irq, history>>

\* Mutant of DisableAC: the brown-out detector is disabled here, with the
\* other peripherals, as well as before the sleep instruction.
DisableACAndBOD ==
    /\ pc = "L83"
    /\ ACSR' = (IF HasFlag(powerBits, PM_AC_OFF)
                THEN U8(BitOr(ACSR, Pow2(ACD))) ELSE ACSR)
    /\ MCUCR' = (IF HasFlag(powerBits, PM_BOD_OFF)
                 THEN U8(BitOr(MCUCR, Pow2(BODS))) ELSE MCUCR)
    /\ trace' =
           trace
           \o (IF HasFlag(powerBits, PM_AC_OFF)
               THEN <<<<"ac_disable", 0>>>> ELSE << >>)
           \o (IF HasFlag(powerBits, PM_BOD_OFF)
               THEN <<<<"bod_disable", 0>>>> ELSE << >>)
    /\ pc' = "L94"
    /\ UNCHANGED <<arduino, object, PRR, SMCR, SREG, MCUSR, WDTCSR,
                   oldSREG, irq, history>>

\* if (powerBits & (1 << PM_AC_OFF)) ACSR |= (1 << ACD);
DisableAC ==
    /\ pc = "L83"
    /\ IF HasFlag(powerBits, PM_AC_OFF)
       THEN /\ ACSR' = U8(BitOr(ACSR, Pow2(ACD)))
            /\ trace' = Did("ac_disable", 0)
       ELSE UNCHANGED <<ACSR, trace>>
    /\ pc' = "L94"
    /\ UNCHANGED <<arduino, object, PRR, SMCR, SREG, MCUSR, MCUCR, WDTCSR,
                   oldSREG, irq, history>>

\* Mutant of WdtReset: the watchdog is disabled without being reset first.
WdtResetOmitted ==
    /\ pc = "L94"
    /\ pc' = (IF HasFlag(powerBits, PM_WDT_OFF) THEN "L96" ELSE "L103")
    /\ UNCHANGED <<arduino, object, registers, oldSREG, irq, trace, history>>

\* if (powerBits & (1 << PM_WDT_OFF)) { wdt_reset(); ...
WdtReset ==
    /\ pc = "L94"
    /\ IF HasFlag(powerBits, PM_WDT_OFF)
       THEN /\ pc' = "L96"
            /\ trace' = Did("wdt_reset", 0)
       ELSE /\ pc' = "L103"
            /\ UNCHANGED trace
    /\ UNCHANGED <<arduino, object, registers, oldSREG, irq, history>>

\* The value of MCUSR & (1 << WDRF).
ClearWDRFValue(mcusr) == U8(BitAnd(mcusr, Pow2(WDRF)))

\* MCUSR &= (1 << WDRF);
ClearWDRF ==
    /\ pc = "L96"
    /\ MCUSR' = ClearWDRFValue(MCUSR)
    /\ pc' = "L97"
    /\ trace' = Did("write_mcusr", ClearWDRFValue(MCUSR))
    /\ UNCHANGED <<arduino, object, PRR, SMCR, SREG, ACSR, MCUCR, WDTCSR,
                   oldSREG, irq, history>>

\* wdt_disable(): the timed sequence that clears WDE.  The hardware keeps
\* WDE set while WDRF is set in MCUSR.
WdtDisable ==
    /\ pc = "L97"
    /\ WDTCSR' = IF Bit(MCUSR, WDRF) = 1
                 THEN U8(BitOr(WDTCSR, Pow2(WDE)))
                 ELSE BitAnd(WDTCSR, BitNot8(Pow2(WDE)))
    /\ pc' = "L103"
    /\ trace' = Did("wdt_disable", 0)
    /\ UNCHANGED <<arduino, object, PRR, SMCR, SREG, ACSR, MCUSR, MCUCR,
                   oldSREG, irq, history>>

\* if (ps) (ps)();  The hook is the caller's code: it may leave the I flag
\* as it is, or run sei() or cli().  It does not write the registers
\* goToSleep owns during the cycle (PRR, ACSR, the watchdog's).
CallPreSleep ==
    /\ pc = "L103"
    /\ IF ps # NoHook
       THEN /\ trace' = Did("ps", ps)
            /\ \E v \in {SREG, WithI(SREG, TRUE), WithI(SREG, FALSE)} :
                   SREG' = v
       ELSE UNCHANGED <<trace, SREG>>
    /\ pc' = "L110"
    /\ UNCHANGED <<arduino, object, PRR, SMCR, ACSR, MCUSR, MCUCR, WDTCSR,
                   oldSREG, irq, history>>

\* uint8_t oldSREG = SREG;
SaveSREG ==
    /\ pc = "L110"
    /\ oldSREG' = SREG
    /\ pc' = "L111"
    /\ trace' = Did("save_sreg", SREG)
    /\ UNCHANGED <<arduino, object, registers, irq, history>>

\* Mutant of Cli: interrupts stay as the caller left them.
CliSkipped ==
    /\ pc = "L111"
    /\ pc' = "L116"
    /\ trace' = Did("cli", 0)
    /\ UNCHANGED <<arduino, object, registers, oldSREG, irq, history>>

\* cli();
Cli ==
    /\ pc = "L111"
    /\ SREG' = WithI(SREG, FALSE)
    /\ pc' = "L116"
    /\ trace' = Did("cli", 0)
    /\ UNCHANGED <<arduino, object, PRR, SMCR, ACSR, MCUSR, MCUCR, WDTCSR,
                   oldSREG, irq, history>>

\* sleep_enable(): SMCR |= _BV(SE)
SleepEnable ==
    /\ pc = "L116"
    /\ SMCR' = U8(BitOr(SMCR, Pow2(SE)))
    /\ pc' = "L124"
    /\ trace' = Did("sleep_enable", 0)
    /\ UNCHANGED <<arduino, object, PRR, SREG, ACSR, MCUSR, MCUCR, WDTCSR,
                   oldSREG, irq, history>>

\* if (powerBits & (1 << PM_BOD_OFF)) sleep_bod_disable();
\* sleep_bod_disable() leaves BODS set and BODSE clear in MCUCR.
BodDisable ==
    /\ pc = "L124"
    /\ IF HasFlag(powerBits, PM_BOD_OFF)
       THEN /\ MCUCR' = U8(BitOr(MCUCR, Pow2(BODS)))
            /\ trace' = Did("bod_disable", 0)
       ELSE UNCHANGED <<MCUCR, trace>>
    /\ pc' = "L131"
    /\ UNCHANGED <<arduino, object, PRR, SMCR, SREG, ACSR, MCUSR, WDTCSR,
                   oldSREG, irq, history>>

\* Mutant of Sei: the saved state is restored instead of I being set.
SeiRestores ==
    /\ pc = "L131"
    /\ SREG' = oldSREG
    /\ pc' = "L136"
    /\ trace' = Did("sei", 0)
    /\ UNCHANGED <<arduino, object, PRR, SMCR, ACSR, MCUSR, MCUCR, WDTCSR,
                   oldSREG, irq, history>>

\* Mutant of Sei: interrupts stay masked when the processor halts.
SeiOmitted ==
    /\ pc = "L131"
    /\ pc' = "L136"
    /\ trace' = Did("sei", 0)
    /\ UNCHANGED <<arduino, object, registers, oldSREG, irq, history>>

\* sei();
Sei ==
    /\ pc = "L131"
    /\ SREG' = WithI(SREG, TRUE)
    /\ pc' = "L136"
    /\ trace' = Did("sei", 0)
    /\ UNCHANGED <<arduino, object, PRR, SMCR, ACSR, MCUSR, MCUCR, WDTCSR,
                   oldSREG, irq, history>>

\* sleep_cpu(): the sleep instruction halts the processor.
SleepCpu ==
    /\ pc = "L136"
    /\ pc' = "asleep"
    /\ trace' = Did("sleep", 0)
    /\ UNCHANGED <<arduino, object, registers, oldSREG, irq, history>>

\* An enabled interrupt wakes the processor: its handler runs and returns to
\* the statement after sleep_cpu().  BODS has cleared itself by then.
Wake ==
    /\ pc = "asleep"
    /\ irq
    /\ InterruptsEnabled
    /\ irq' = FALSE
    /\ MCUCR' = BitAnd(MCUCR, BitNot8(Pow2(BODS)))
    /\ pc' = "L163"
    /\ trace' = Did("wake", 0)
    /\ served' = FALSE
    /\ UNCHANGED <<arduino, object, PRR, SMCR, SREG, ACSR, MCUSR, WDTCSR,
                   oldSREG, lastCall, attached>>

\* A reset while asleep restarts the program from boot.
Reset ==
    /\ pc = "asleep"
    /\ \E b \in BootInputs :
           /\ MCUSR' = b[1]
           /\ WDTCSR' = b[2]
    /\ ps' = NoHook
    /\ aw' = NoHook
    /\ copyPRR' = 0
    /\ powerBits' = PM_NONE
    /\ PRR' = 0
    /\ SMCR' = 0
    /\ SREG' = 0
    /\ ACSR' = 0
    /\ MCUCR' = 0
    /\ oldSREG' = 0
    /\ pc' = "idle"
    /\ irq' = FALSE
    /\ trace' = << >>
    /\ lastCall' = << >>
    /\ attached' = <<NoHook, NoHook>>
    /\ served' = FALSE
    /\ UNCHANGED arduino

\* Mutant of SleepDisable: SE is left set after the wake-up.
SleepDisableOmitted ==
    /\ pc = "L163"
    /\ pc' = "L172"
    /\ trace' = Did("sleep_disable", 0)
    /\ UNCHANGED <<arduino, object, registers, oldSREG, irq, history>>

\* Mutant of SleepDisable: the whole of SMCR is cleared.
SleepDisableClearsSMCR ==
    /\ pc = "L163"
    /\ SMCR' = 0
    /\ pc' = "L172"
    /\ trace' = Did("sleep_disable", 0)
    /\ UNCHANGED <<arduino, object, PRR, SREG, ACSR, MCUSR, MCUCR, WDTCSR,
                   oldSREG, irq, history>>

\* sleep_disable(): SMCR &= ~_BV(SE)
SleepDisable ==
    /\ pc = "L163"
    /\ SMCR' = BitAnd(SMCR, BitNot8(Pow2(SE)))
    /\ pc' = "L172"
    /\ trace' = Did("sleep_disable", 0)
    /\ UNCHANGED <<arduino, object, PRR, SREG, ACSR, MCUSR, MCUCR, WDTCSR,
                   oldSREG, irq, history>>

\* PRR = copyPRR;
RestorePRR ==
    /\ pc = "L172"
    /\ PRR' = copyPRR
    /\ pc' = "L173"
    /\ trace' = Did("restore_prr", copyPRR)
    /\ UNCHANGED <<arduino, object, SMCR, SREG, ACSR, MCUSR, MCUCR, WDTCSR,
                   oldSREG, irq, history>>

\* Mutant of RestoreSREG: SREG is left as sei() set it.
RestoreSREGSkipped ==
    /\ pc = "L173"
    /\ pc' = "L178"
    /\ trace' = Did("restore_sreg", oldSREG)
    /\ UNCHANGED <<arduino, object, registers, oldSREG, irq, history>>

\* SREG = oldSREG;
RestoreSREG ==
    /\ pc = "L173"
    /\ SREG' = oldSREG
    /\ pc' = "L178"
    /\ trace' = Did("restore_sreg", oldSREG)
    /\ UNCHANGED <<arduino, object, PRR, SMCR, ACSR, MCUSR, MCUCR, WDTCSR,
                   oldSREG, irq, history>>

\* Mutant of CallAfterWake: the after-wake hook is never called.
CallAfterWakeSkipped ==
    /\ pc = "L178"
    /\ pc' = "L181"
    /\ UNCHANGED <<arduino, object, registers, oldSREG, irq, trace, history>>

\* Mutant of CallAfterWake: the test is on aw but the call is to ps.
CallAfterWakeCallsPs ==
    /\ pc = "L178"
    /\ IF aw # NoHook
       THEN trace' = Did("ps", ps)
       ELSE UNCHANGED trace
    /\ pc' = "L181"
    /\ UNCHANGED <<arduino, object, registers, oldSREG, irq, history>>

\* if (aw) (aw)();  The hook is taken to leave the registers goToSleep has
\* just restored as they are.
CallAfterWake ==
    /\ pc = "L178"
    /\ IF aw # NoHook
       THEN trace' = Did("aw", aw)
       ELSE UNCHANGED trace
    /\ pc' = "L181"
    /\ UNCHANGED <<arduino, object, registers, oldSREG, irq, history>>

\* } goToSleep returns; its frame is gone.
Return ==
    /\ pc = "L181"
    /\ pc' = "idle"
    /\ oldSREG' = 0
    /\ trace' = << >>
    /\ served' = FALSE
    /\ UNCHANGED <<arduino, object, registers, irq, lastCall, attached>>

\* ------------------------------------------------------------------------
\* The wake-up interrupt.
\* ------------------------------------------------------------------------

\* goToSleep has been entered and the sleep instruction has not run yet.
BeforeHalt ==
    pc \in {"L72", "L83", "L94", "L96", "L97", "L103", "L110", "L111",
            "L116", "L124", "L131", "L136"}

\* The interrupt source the caller arranged before the call raises its flag
\* at some point after goToSleep has been entered.
RaiseInterrupt ==
    /\ pc # "idle"
    /\ ~irq
    /\ irq' = TRUE
    /\ UNCHANGED <<arduino, object, registers, oldSREG, pc, trace, history>>

\* A pending interrupt is taken while the processor runs with I set: the
\* handler runs and returns (reti leaves I set).  The instruction after sei
\* always executes first, so none is taken at line 136.
ServeInterrupt ==
    /\ irq
    /\ InterruptsEnabled
    /\ pc \notin {"L136", "asleep"}
    /\ irq' = FALSE
    /\ served' = (served \/ BeforeHalt)
    /\ UNCHANGED <<arduino, object, registers, oldSREG, pc, trace, lastCall,
                   attached>>

\* ------------------------------------------------------------------------
\* The specification.
\* ------------------------------------------------------------------------

goToSleep ==
    \/ SavePRR
    \/ PowerOffPRR
    \/ DisableAC
    \/ WdtReset
    \/ ClearWDRF
    \/ WdtDisable
    \/ CallPreSleep
    \/ SaveSREG
    \/ Cli
    \/ SleepEnable
    \/ BodDisable
    \/ Sei
    \/ SleepCpu
    \/ Wake
    \/ SleepDisable
    \/ RestorePRR
    \/ RestoreSREG
    \/ CallAfterWake
    \/ Return

Next ==
    \/ \E m \in sleepMode_t, b \in MaskInputs : setSleepMode(m, b)
    \/ \E f \in HookRefs : attachPreSleep(f)
    \/ \E f \in HookRefs : attachWakeUp(f)
    \/ \E v \in PRRInputs : WritePRR(v)
    \/ \E on \in BOOLEAN : WriteI(on)
    \/ goToSleep
    \/ Reset
    \/ RaiseInterrupt
    \/ ServeInterrupt

Spec == Init /\ [][Next]_vars

\* The processor keeps executing: a goToSleep that has been entered takes its
\* next step whenever it has one (hooks and handlers return; while halted
\* the next step is the wake-up, which needs a pending enabled interrupt).
Running == pc # "idle" /\ goToSleep

\* The progress properties are checked with fewer configurations: two modes
\* and two masks (one without and one with the brown-out and watchdog bits).
LiveModes == {SM_IDLE, SM_POWER_DOWN}

LiveMasks == {BitOr(Pow2(PM_AC_OFF), PM_TWI_OFF), PM_EVERYTHING_OFF}

LiveNext ==
    \/ \E m \in LiveModes, b \in LiveMasks : setSleepMode(m, b)
    \/ \E f \in HookRefs : attachPreSleep(f)
    \/ \E f \in HookRefs : attachWakeUp(f)
    \/ \E v \in PRRInputs : WritePRR(v)
    \/ \E on \in BOOLEAN : WriteI(on)
    \/ goToSleep
    \/ Reset
    \/ RaiseInterrupt
    \/ ServeInterrupt

LiveSpec == Init /\ [][LiveNext]_vars /\ WF_vars(Running)

\* ------------------------------------------------------------------------
\* Reading the trace of the current call.
\* ------------------------------------------------------------------------

\* How many times op has run, and the position of its first run (0: never).
Count(op) == Cardinality({i \in DOMAIN trace : trace[i][1] = op})

Pos(op) ==
    IF Count(op) = 0 THEN 0
    ELSE CHOOSE i \in DOMAIN trace :
             /\ trace[i][1] = op
             /\ \A j \in DOMAIN trace : trace[j][1] = op => i <= j

\* The value logged with the first run of op.
Arg(op) == trace[Pos(op)][2]

\* goToSleep is between its PRR write and its PRR restore.
PoweredOff ==
    pc \in {"L83", "L94", "L96", "L97", "L103", "L110", "L111", "L116",
            "L124", "L131", "L136", "asleep", "L163", "L172"}

\* goToSleep has restored the registers and is at or past the after-wake hook.
Woken == pc \in {"L178", "L181"}

\* ------------------------------------------------------------------------
\* Properties.
\* ------------------------------------------------------------------------

\* C1: after setSleepMode(mode, bits) the sleep-mode-select field holds
\* POWER_DOWN for POWER_SAVE and STANDBY for EXT_STANDBY when ARDUINO is
\* defined, and the requested mode in every other case.
C1_CommittedMode ==
    lastCall # << >> =>
        ModeField(SMCR) =
            IF arduino /\ lastCall[1] = SM_POWER_SAVE THEN SM_POWER_DOWN
            ELSE IF arduino /\ lastCall[1] = SM_EXT_STANDBY THEN SM_STANDBY
            ELSE lastCall[1]

C1_Witness ==
    /\ arduino
    /\ lastCall # << >>
    /\ lastCall[1] = SM_EXT_STANDBY
    /\ ModeField(SMCR) = SM_STANDBY

\* C2: once an interrupt-woken cycle is at the after-wake hook, PRR holds the
\* value it had when this call of goToSleep began.
C2_PRRRestored == Woken => PRR = Arg("save_prr")

C2_Witness ==
    /\ pc = "L178"
    /\ Arg("save_prr") = BitOr(PM_TWI_OFF, PM_SPI_OFF)
    /\ Arg("write_prr") = BitOr(PM_TIMER1_OFF, PM_ADC_OFF)
    /\ PRR = BitOr(PM_TWI_OFF, PM_SPI_OFF)

C4_HooksOnce ==
    /\ Count("ps") <= 1
    /\ Count("aw") <= 1
    /\ Count("cli") > 0 =>
           /\ Count("ps") = (IF ps # NoHook THEN 1 ELSE 0)
           /\ ps # NoHook => Pos("ps") < Pos("cli")
    /\ Count("aw") > 0 =>
           /\ Pos("restore_sreg") > 0
           /\ Pos("restore_sreg") < Pos("aw")
    /\ pc = "L181" =>
           /\ Count("ps") = (IF ps # NoHook THEN 1 ELSE 0)
           /\ Count("aw") = (IF aw # NoHook THEN 1 ELSE 0)

C4_Witness ==
    /\ pc = "L181"
    /\ ps # NoHook
    /\ aw # NoHook
    /\ Count("ps") = 1
    /\ Count("aw") = 1

\* C5 (as claimed): for every set S of powerMode_t enumerators OR-ed into
\* the mask, the sleeping processor has exactly the PRR bits of the register
\* flags of S set, and the comparator, brown-out and watchdog disables have
\* run exactly for those of PM_AC_OFF, PM_BOD_OFF, PM_WDT_OFF that are in S.
C5_FlagsIndependent ==
    (pc = "asleep" /\ lastCall # << >>) =>
        \A S \in SUBSET (RegisterFlags \cup SyntheticFlags) :
            lastCall[2] = OrAll(S) =>
                /\ PRR = OrAll(S \cap RegisterFlags)
                /\ Count("ac_disable") = (IF "PM_AC_OFF" \in S THEN 1 ELSE 0)
                /\ Count("bod_disable") = (IF "PM_BOD_OFF" \in S THEN 1 ELSE 0)
                /\ Count("wdt_disable") = (IF "PM_WDT_OFF" \in S THEN 1 ELSE 0)

\* C6: from the PRR write to the PRR restore, PRR is the low byte of the
\* stored mask; bits 8..15 of the mask reach no PRR bit.
C6_PRRLowByte == PoweredOff => PRR = powerBits % 256

C6_Witness ==
    /\ pc = "asleep"
    /\ powerBits \div 256 # 0
    /\ PRR # 0
    /\ PRR # Arg("save_prr")
    /\ PRR = powerBits % 256

\* The scenario of C7: ARDUINO defined, setSleepMode(SM_POWER_SAVE,
\* PM_TIMER1_OFF | PM_ADC_OFF), then goToSleep.
C7_Scenario ==
    /\ arduino
    /\ lastCall = <<SM_POWER_SAVE, BitOr(PM_TIMER1_OFF, PM_ADC_OFF)>>

C7_NoSyntheticSequence ==
    /\ Count("ac_disable") = 0
    /\ Count("wdt_reset") = 0
    /\ Count("write_mcusr") = 0
    /\ Count("wdt_disable") = 0
    /\ Count("bod_disable") = 0

\* C7 (as claimed): in the scenario POWER_DOWN is committed, and during the
\* cycle PRR is its pre-call value with the timer1 and ADC bits set (every
\* other bit keeps its pre-call value), and no comparator, watchdog or
\* brown-out sequence runs.
C7_PRRGainsBits ==
    C7_Scenario =>
        /\ ModeField(SMCR) = SM_POWER_DOWN
        /\ C7_NoSyntheticSequence
        /\ PoweredOff =>
               PRR = BitOr(Arg("save_prr"), BitOr(PM_TIMER1_OFF, PM_ADC_OFF))

\* C7 (amended): in the scenario POWER_DOWN is committed, and during the
\* cycle PRR holds the timer1 and ADC bits and no other bit, whatever its
\* pre-call value, and no comparator, watchdog or brown-out sequence runs.
C7_PRRHoldsBits ==
    C7_Scenario =>
        /\ ModeField(SMCR) = SM_POWER_DOWN
        /\ C7_NoSyntheticSequence
        /\ PoweredOff => PRR = BitOr(PM_TIMER1_OFF, PM_ADC_OFF)

C7_Witness ==
    /\ C7_Scenario
    /\ pc = "asleep"
    /\ Arg("save_prr") = BitOr(PM_TWI_OFF, PM_SPI_OFF)
    /\ PRR = BitOr(PM_TIMER1_OFF, PM_ADC_OFF)
    /\ ModeField(SMCR) = SM_POWER_DOWN

\* C8: after setSleepMode(mode, bits), a second setSleepMode(mode, bits)
\* changes neither SMCR (mode field and SE bit) nor the stored mask.
C8_Idempotent ==
    /\ [](lastCall # << >> =>
            /\ set_sleep_mode(SMCR, SubstituteMode(arduino, lastCall[1])) = SMCR
            /\ U16(lastCall[2]) = powerBits)
    /\ [][\A m \in sleepMode_t, b \in MaskInputs :
            (lastCall = <<m, b>> /\ setSleepMode(m, b)) =>
                UNCHANGED <<SMCR, powerBits>>]_vars

C8_Witness ==
    /\ pc = "idle"
    /\ lastCall = <<SM_EXT_STANDBY, PM_EVERYTHING_OFF>>
    /\ powerBits = PM_EVERYTHING_OFF
    /\ ModeField(SMCR) = (IF arduino THEN SM_STANDBY ELSE SM_EXT_STANDBY)
    /\ ~SleepEnabled(SMCR)

\* C9: no step of goToSleep changes the stored mask, the sleep-mode-select
\* field or either hook reference.
C9_ConfigKept ==
    [][goToSleep =>
          /\ powerBits' = powerBits
          /\ ModeField(SMCR') = ModeField(SMCR)
          /\ ps' = ps
          /\ aw' = aw]_vars

C9_Witness ==
    /\ pc = "L181"
    /\ lastCall = <<SM_STANDBY, PM_EVERYTHING_OFF>>
    /\ powerBits = PM_EVERYTHING_OFF
    /\ ModeField(SMCR) = SM_STANDBY
    /\ ps # NoHook
    /\ aw # NoHook

\* C10: once an interrupt-woken cycle has restored SREG, the I flag is what
\* it was when line 110 read SREG, although sei() set it before the sleep.
C10_InterruptsRestored ==
    Woken => Bit(SREG, SREG_I) = Bit(Arg("save_sreg"), SREG_I)

C10_Witness ==
    /\ pc = "L181"
    /\ Count("sei") = 1
    /\ Count("wake") = 1
    /\ Bit(Arg("save_sreg"), SREG_I) = 0
    /\ ~InterruptsEnabled

\* C11: when the sleep instruction executes, and while the processor is
\* halted, the I flag is set.
C11_SleepsWithInterruptsOn ==
    pc \in {"L136", "asleep"} => InterruptsEnabled

C11_Witness ==
    /\ pc = "asleep"
    /\ Bit(Arg("save_sreg"), SREG_I) = 0
    /\ HasFlag(powerBits, PM_BOD_OFF)
    /\ InterruptsEnabled

\* The statements of goToSleep after the processor has been woken.
WakePath ==
    \/ SleepDisable
    \/ RestorePRR
    \/ RestoreSREG
    \/ CallAfterWake
    \/ Return

\* C12 (as claimed): when goToSleep returns from a cycle whose mask has the
\* comparator bit (8) or the watchdog bit (10), ACD is set and the watchdog
\* is off (WDE clear); and no statement after the wake writes ACSR, MCUSR,
\* MCUCR or WDTCSR.
C12_WakeKeepsPeripheralsOff ==
    /\ [](pc = "L181" =>
            /\ HasFlag(powerBits, PM_AC_OFF) => Bit(ACSR, ACD) = 1
            /\ HasFlag(powerBits, PM_WDT_OFF) => Bit(WDTCSR, WDE) = 0)
    /\ [][WakePath => UNCHANGED <<ACSR, MCUSR, MCUCR, WDTCSR>>]_vars

\* C13: the hooks a call invokes are the ones most recently attached, each
\* slot on its own: every pre-sleep invocation is of the latest
\* attachPreSleep argument, every after-wake invocation of the latest
\* attachWakeUp argument, a slot whose latest argument is nullptr (or that
\* was never attached) is not invoked, and attaching one slot leaves the
\* other as it was.
C13_LastWriterWins ==
    /\ ps = attached[1]
    /\ aw = attached[2]
    /\ \A i \in DOMAIN trace :
           /\ trace[i][1] = "ps" =>
                  /\ trace[i][2] = attached[1]
                  /\ trace[i][2] # NoHook
           /\ trace[i][1] = "aw" =>
                  /\ trace[i][2] = attached[2]
                  /\ trace[i][2] # NoHook
    /\ pc = "L181" =>
           /\ Count("ps") = (IF attached[1] # NoHook THEN 1 ELSE 0)
           /\ Count("aw") = (IF attached[2] # NoHook THEN 1 ELSE 0)

\* A cycle that called the pre-sleep hook and, its after-wake slot being
\* nullptr, no after-wake hook.
C13_Witness ==
    /\ pc = "L181"
    /\ attached[1] # NoHook
    /\ attached[2] = NoHook
    /\ Count("ps") = 1
    /\ Arg("ps") = attached[1]
    /\ Count("aw") = 0

\* goToSleep is past its watchdog block (lines 94-98).
PastWatchdogBlock ==
    pc \in {"L103", "L110", "L111", "L116", "L124", "L131", "L136", "asleep",
            "L163", "L172", "L173", "L178", "L181"}

\* C14: with the WDT-off bit set the watchdog is reset, then MCUSR is
\* written, then the watchdog is disabled, each once and in that order, and
\* all three before the pre-sleep hook and everything after it; with the bit
\* clear none of the three happens.
C14_WatchdogOrder ==
    /\ Count("write_mcusr") > 0 =>
           /\ Count("wdt_reset") > 0
           /\ Pos("wdt_reset") < Pos("write_mcusr")
    /\ Count("wdt_disable") > 0 =>
           /\ Count("write_mcusr") > 0
           /\ Pos("write_mcusr") < Pos("wdt_disable")
    /\ (HasFlag(powerBits, PM_WDT_OFF) /\ PastWatchdogBlock) =>
           /\ Count("wdt_reset") = 1
           /\ Count("write_mcusr") = 1
           /\ Count("wdt_disable") = 1
           /\ \A i \in DOMAIN trace :
                  trace[i][1] \in {"ps", "save_sreg", "cli", "sleep_enable"}
                      => Pos("wdt_disable") < i
    /\ (~HasFlag(powerBits, PM_WDT_OFF) /\ pc # "idle") =>
           /\ Count("wdt_reset") = 0
           /\ Count("write_mcusr") = 0
           /\ Count("wdt_disable") = 0

\* The pre-sleep hook has just run after the three watchdog steps.
C14_Witness ==
    /\ pc = "L110"
    /\ HasFlag(powerBits, PM_WDT_OFF)
    /\ Count("ps") = 1
    /\ Pos("wdt_reset") < Pos("write_mcusr")
    /\ Pos("write_mcusr") < Pos("wdt_disable")
    /\ Pos("wdt_disable") < Pos("ps")

\* C15 (as claimed): the write of line 96 clears WDRF and leaves every other
\* bit of MCUSR as it was.
C15_ClearsOnlyWDRF ==
    [][ClearWDRF => MCUSR' = BitAnd(MCUSR, BitNot8(Pow2(WDRF)))]_vars

C17_SleepEnableWindow ==
    SleepEnabled(SMCR) <=> pc \in {"L124", "L131", "L136", "asleep", "L163"}

\* sleep_disable() has run after a wake-up, before PRR and SREG are restored.
C17_Witness ==
    /\ pc = "L172"
    /\ Count("sleep_enable") = 1
    /\ Count("wake") = 1
    /\ Count("restore_prr") = 0
    /\ ~SleepEnabled(SMCR)

\* goToSleep is between cli() and the wake-up: interrupts are masked, or the
\* sleep instruction is next, or the processor is halted.
Guarded == pc \in {"L116", "L124", "L131", "L136", "asleep"}

\* C18: a halted processor stays halted until an enabled interrupt wakes it
\* (the interrupt is then served) or a reset restarts the program; with an
\* interrupt pending the halt ends, and after a wake-up goToSleep reaches its
\* return with SE clear, PRR and the I flag as saved, and the after-wake
\* hook called once if one is attached.
C18_WakeUpLiveness ==
    /\ [][(pc = "asleep" /\ pc' # "asleep") => (Wake \/ Reset)]_vars
    /\ [][(pc = "asleep" /\ pc' = "L163") =>
              (irq /\ InterruptsEnabled /\ ~irq')]_vars
    /\ (pc = "asleep" /\ irq) ~> (pc # "asleep")
    /\ (pc = "L163") ~>
           (/\ pc = "L181"
            /\ ~SleepEnabled(SMCR)
            /\ PRR = Arg("save_prr")
            /\ Bit(SREG, SREG_I) = Bit(Arg("save_sreg"), SREG_I)
            /\ Count("aw") = (IF aw # NoHook THEN 1 ELSE 0))
    /\ (pc = "L181") ~> (pc = "idle")

\* Woken by the interrupt, the call is at its return with the wake path done
\* and the after-wake hook called.
C18_Witness ==
    /\ pc = "L181"
    /\ Count("wake") = 1
    /\ Count("aw") = 1
    /\ ~SleepEnabled(SMCR)
    /\ PRR = Arg("save_prr")

\* C19 (as claimed): the processor is never halted with the wake-up
\* interrupt, raised after goToSleep was entered, already consumed.
C19_NeverHaltedConsumed ==
    ~(pc = "asleep" /\ served /\ ~irq)

\* C19 (amended): a wake-up interrupt pending once goToSleep has masked
\* interrupts, or raised from then on, is not served before the processor
\* halts, is consumed while halted only by waking the processor, and
\* goToSleep then runs to its return (unless a reset restarts the program).
C19_PendingWakes ==
    /\ [][(irq /\ Guarded /\ pc # "asleep") => irq']_vars
    /\ [][(irq /\ pc = "asleep" /\ ~irq') => pc' # "asleep"]_vars
    /\ (irq /\ Guarded) ~> (pc = "idle")

\* The interrupt was raised while goToSleep had interrupts masked and is
\* still pending with the processor halted.
C19_Witness ==
    /\ pc = "asleep"
    /\ irq
    /\ ~served
    /\ InterruptsEnabled

====
